---- MODULE Spec2Model ----
(***************************************************************************)
(* honeystats: checkpointed event-log scanning (winner, redistribution and *)
(* staking units), 30-day retention of winner records and the weekly /    *)
(* monthly / all-time aggregation, modelled from src/honeystats.py.        *)
(***************************************************************************)
EXTENDS Integers, Sequences, FiniteSets, TLC

VARIABLES
    unit,               \* which process_*_events function this thread runs
    chain_name,         \* the chain the unit works on
    pc,                 \* position of the unit inside its function
    run,                \* number of runs started so far (the while True loop)
    now,                \* time.time() of the current run
    current_block,      \* head snapshot, w3.eth.block_number
    ckpt_file,          \* content of the unit's last_block*.json file
    ckpt_loaded,        \* what the run found when it opened the checkpoint file
    last_block,         \* last_block read from the checkpoint file
    from_block,
    to_block,
    winners,            \* in-memory list of winner records
    winners_file,       \* content of winners_<chain>.json
    winners_data,       \* what json.load returned for the winners file
    stakers,            \* in-memory dict owner -> committed stake
    stakers_file,       \* content of stakers_<chain>.json
    stakers_data,       \* the dict the run started from (loaded, or empty)
    stakers_gauge,      \* value of the stakers_total gauge
    total_stake_gauge,  \* value of the total_stake gauge (unscaled)
    weekly_winners,     \* dicts built by the aggregation loop
    monthly_winners,
    all_time_winners,
    weekly_file,        \* content of winners-weekly_<chain>.json
    monthly_file,       \* content of winners-monthly_<chain>.json
    gauge_weekly,       \* labelled values of the three top-10 gauges, in the
    gauge_monthly,      \*   order in which the entries are set
    gauge,
    errors,             \* error_counter of this run, per error_type
    chunks,             \* history: every chunk requested from upstream
    ended,              \* history: how each earlier run ended
    main_pc,            \* position of the main thread in main() and the loop
    threads,            \* position of every unit thread of the run
    redistribution_errors,  \* the Counter shared by the threads, per
                        \*   {chain_name, error_type}
    failures,           \* history: handled failures of the run, per label
    opened,             \* history: <<file, thread>> for every open(file, 'w')
                        \*   statement of the steps the thread has taken
    faults              \* faults that have occurred in the run

ckptVars   == <<ckpt_file, ckpt_loaded, last_block, from_block, to_block>>
winnerVars == <<winners, winners_file, winners_data>>
stakerVars == <<stakers, stakers_file, stakers_data, stakers_gauge, total_stake_gauge>>
aggVars    == <<weekly_winners, monthly_winners, all_time_winners,
               weekly_file, monthly_file, gauge_weekly, gauge_monthly, gauge>>
unitVars == <<unit, chain_name, pc, run, now, current_block, ckptVars,
              winnerVars, stakerVars, aggVars, errors, chunks, ended>>
mainVars == <<main_pc, threads, redistribution_errors, failures,
              opened, faults>>
vars == <<unitVars, mainVars>>

---------------------------------------------------------------------------
(* Bounds of the model *)

\* deployment_block of the scanned contract (the value of Scenario A)
DeploymentBlock == 1000
\* number of runs of the main loop (process restarts included)
MaxRuns == 2
\* longest winners file drawn for the aggregation specification
MaxRecords == 3

(* Program constants *)

ChunkStep == 10000
\* sorted_winners[:10]
TopN == 10
RetentionDays == 30
SecondsPerDay == 86400

---------------------------------------------------------------------------
(* time.strftime("%U") / ("%m") of time.localtime(ts), local zone = UTC *)

DaysOf(ts) == ts \div SecondsPerDay

\* civil year, month and day-of-year index (March based) of a day number
CivilOf(days) ==
    LET z   == days + 719468
        era == z \div 146097
        doe == z - era * 146097
        yoe == (doe - doe \div 1460 + doe \div 36524 - doe \div 146096) \div 365
        doy == doe - (365 * yoe + yoe \div 4 - yoe \div 100)
        mp  == (5 * doy + 2) \div 153
        m   == IF mp < 10 THEN mp + 3 ELSE mp - 9
        y   == yoe + era * 400 + (IF m <= 2 THEN 1 ELSE 0)
    IN  [year |-> y, month |-> m]

\* day number of January 1st of a year
DaysOfJan1(y) ==
    LET yy  == y - 1
        era == yy \div 400
        yoe == yy - era * 400
        doe == yoe * 365 + yoe \div 4 - yoe \div 100 + 306
    IN  era * 146097 + doe - 719468

\* %m : month of the year, 1..12
MonthOf(ts) == CivilOf(DaysOf(ts)).month

\* %U : week of the year, Sunday first, days before the first Sunday are week 0
WeekOf(ts) ==
    LET days == DaysOf(ts)
        wday == (days + 4) % 7
        yday == days - DaysOfJan1(CivilOf(days).year)
    IN  (yday + 7 - wday) \div 7

---------------------------------------------------------------------------
(* Python dicts keep insertion order: a dict is a sequence of entries *)

Keys(d) == {d[i].owner : i \in 1..Len(d)}

IndexOf(d, o) == CHOOSE i \in 1..Len(d) : d[i].owner = o

Get(d, o) == d[IndexOf(d, o)].total

\* d[o] = v
DictSet(d, o, v) ==
    IF o \in Keys(d)
    THEN [d EXCEPT ![IndexOf(d, o)].total = v]
    ELSE Append(d, [owner |-> o, total |-> v])

\* the dict as a mapping, insertion order forgotten
AsMap(d) == [o \in Keys(d) |-> Get(d, o)]

RECURSIVE SumValues(_)
SumValues(d) == IF d = <<>> THEN 0 ELSE d[1].total + SumValues(Tail(d))

---------------------------------------------------------------------------
(* Configuration and environment *)

Units == {"winner", "redistribution", "staking"}

\* process_winner_events is started for gnosis only, the others per chain
UnitChains ==
    {<<"winner", "gnosis">>,
     <<"redistribution", "sepolia">>, <<"redistribution", "gnosis">>,
     <<"staking", "sepolia">>, <<"staking", "gnosis">>}

\* error_type labels used by each unit
ReadLastBlockError(u) ==
    IF u = "winner" THEN "read_last_block"
    ELSE IF u = "redistribution" THEN "read_last_block_redistribution"
    ELSE "read_last_block_staking"

GetEventsError(u) ==
    IF u = "winner" THEN "get_events"
    ELSE IF u = "redistribution" THEN "get_redistribution_events"
    ELSE "get_staking_events"

ErrorTypes ==
    {"read_last_block", "read_winners_file", "get_events", "write_winners_file",
     "write_winners_weekly_file", "write_winners_monthly_file",
     "read_last_block_redistribution", "get_redistribution_events",
     "read_last_block_staking", "read_stakers_file", "get_staking_events",
     "write_stakers_file"}

NoErrors == [e \in ErrorTypes |-> 0]

\* the label values of the shared Counter
Labels == {"sepolia", "gnosis"} \X ErrorTypes

NoFailures == [l \in Labels |-> 0]

\* time of the first run: Wednesday 2024-05-15 12:00:00 UTC
Now0 == 19858 * SecondsPerDay + 43200

\* time.sleep(60) between two runs
RunInterval == 60

Owners == {"A", "B"}

\* the upstream event log: WinnerSelected / StakeUpdated entries by ascending
\* block, with the timestamp of the containing block
Ledger ==
    << [block |-> DeploymentBlock + 5000,  owner |-> "A", stake |-> 50,
        timestamp |-> Now0 - 40 * SecondsPerDay],
       [block |-> DeploymentBlock + 10001, owner |-> "B", stake |-> 70,
        timestamp |-> Now0 - 3 * SecondsPerDay],
       [block |-> DeploymentBlock + 10002, owner |-> "A", stake |-> 100,
        timestamp |-> Now0 - 2 * SecondsPerDay],
       [block |-> DeploymentBlock + 20000, owner |-> "B", stake |-> 30,
        timestamp |-> Now0 - SecondsPerDay] >>

\* values w3.eth.block_number may return
Heads == {DeploymentBlock + o : o \in {0, 10001, 10002, 24000}}

\* event.get_logs(from_block, to_block): both bounds inclusive
GetLogs(f, t) == SelectSeq(Ledger, LAMBDA e : f <= e.block /\ e.block <= t)

---------------------------------------------------------------------------
(* Files *)

Absent  == [kind |-> "absent"]
Corrupt == [kind |-> "corrupt"]
\* a checkpoint file holding {chain_name: v}
Checkpoint(v) == [kind |-> "ok", val |-> v]
\* a checkpoint file holding a JSON object without the chain_name key
NoKey == [kind |-> "nokey"]
\* a file holding valid JSON that is neither an object nor an array (5, null)
Scalar == [kind |-> "scalar"]
\* a file that exists and cannot be opened for reading (PermissionError)
Denied == [kind |-> "denied"]
\* a checkpoint file holding valid JSON that is not an object ([], 5)
NotObject == [kind |-> "notobject"]
\* a local variable that has not been assigned
Unbound == [kind |-> "unbound"]

Record(o, s, ts) == [owner |-> o, stake |-> s, timestamp |-> ts]

\* variant: the stored value is never used, every scan starts at deployment
ReadLastBlockIgnoringFile(file) == DeploymentBlock

\* last_block_data.get(chain_name, deployment_block), or the except branch
ReadLastBlock(file) ==
    IF file.kind = "ok" THEN file.val ELSE DeploymentBlock

\* the try block raises FileNotFoundError or JSONDecodeError
Unreadable(file) == file.kind \in {"absent", "corrupt"}

\* the try block raises an exception that the except clause does not name
Raising(file) == file.kind \in {"denied", "notobject"}

\* variant: the converted records carry the time of the conversion
LoadWinnersFileStampingNow(file) ==
    IF file.kind = "dict"
    THEN [i \in 1..Len(file.data) |->
             Record(file.data[i].owner, file.data[i].total, Now0)]
    ELSE IF file.kind = "list" THEN file.data
    ELSE <<>>

\* winners of the winners file: the old owner->stake format is converted
LoadWinnersFile(file) ==
    IF file.kind = "dict"
    THEN [i \in 1..Len(file.data) |->
             Record(file.data[i].owner, file.data[i].total, 0)]
    ELSE IF file.kind = "list" THEN file.data
    ELSE <<>>

LoadStakersFile(file) ==
    IF file.kind = "dict" THEN file.data ELSE <<>>

---------------------------------------------------------------------------
(* Retention and aggregation *)

thirty_days_ago(t) == t - RetentionDays * 24 * 60 * 60

\* variant: one pass removes only the first expired record
PruneFirstExpired(ws, horizon) ==
    LET expired == {i \in 1..Len(ws) : ws[i].timestamp <= horizon}
        first == CHOOSE i \in expired : \A j \in expired : i <= j
    IN  IF expired = {} THEN ws
        ELSE SubSeq(ws, 1, first - 1) \o SubSeq(ws, first + 1, Len(ws))

\* winners = [winner for winner in winners if ... timestamp > thirty_days_ago]
Prune(ws, horizon) == SelectSeq(ws, LAMBDA w : w.timestamp > horizon)

\* variant: d[owner] = stake, the previous total is overwritten
AccumulateOverwrite(d, o, s) == DictSet(d, o, s)

\* if owner in d: d[owner] += stake  else: d[owner] = stake
Accumulate(d, o, s) ==
    IF o \in Keys(d) THEN DictSet(d, o, Get(d, o) + s) ELSE DictSet(d, o, s)

Front(s) == SubSeq(s, 1, Len(s) - 1)
Last(s) == s[Len(s)]

RECURSIVE AllTimeWinners(_)
AllTimeWinners(ws) ==
    IF ws = <<>> THEN <<>>
    ELSE Accumulate(AllTimeWinners(Front(ws)), Last(ws).owner, Last(ws).stake)

\* variant: the week bucket is not compared
WeeklyWinnersAnyWeek(ws, current_week) == AllTimeWinners(ws)

RECURSIVE WeeklyWinners(_, _)
WeeklyWinners(ws, current_week) ==
    IF ws = <<>> THEN <<>>
    ELSE IF WeekOf(Last(ws).timestamp) = current_week
         THEN Accumulate(WeeklyWinners(Front(ws), current_week),
                         Last(ws).owner, Last(ws).stake)
         ELSE WeeklyWinners(Front(ws), current_week)

RECURSIVE MonthlyWinners(_, _)
MonthlyWinners(ws, current_month) ==
    IF ws = <<>> THEN <<>>
    ELSE IF MonthOf(Last(ws).timestamp) = current_month
         THEN Accumulate(MonthlyWinners(Front(ws), current_month),
                         Last(ws).owner, Last(ws).stake)
         ELSE MonthlyWinners(Front(ws), current_month)

\* variant: stakers.setdefault(owner, stake), the first value of an owner stays
RECURSIVE UpdateStakersKeepingFirst(_, _)
UpdateStakersKeepingFirst(d, evs) ==
    IF evs = <<>> THEN d
    ELSE UpdateStakersKeepingFirst(
            IF evs[1].owner \in Keys(d) THEN d
            ELSE DictSet(d, evs[1].owner, evs[1].stake), Tail(evs))

\* stakers[owner] = stake for every StakeUpdated event, in order
RECURSIVE UpdateStakers(_, _)
UpdateStakers(d, evs) ==
    IF evs = <<>> THEN d
    ELSE UpdateStakers(DictSet(d, evs[1].owner, evs[1].stake), Tail(evs))

\* sorted(d.items(), key=lambda item: item[1], reverse=True): a stable sort,
\* entries with equal totals keep the order they have in d
InsertBeforeEqualTotals(s, e) ==
    LET k == Cardinality({i \in 1..Len(s) : s[i].total > e.total})
    IN  SubSeq(s, 1, k) \o <<e>> \o SubSeq(s, k + 1, Len(s))

InsertByTotal(s, e) ==
    LET k == Cardinality({i \in 1..Len(s) : s[i].total >= e.total})
    IN  SubSeq(s, 1, k) \o <<e>> \o SubSeq(s, k + 1, Len(s))

RECURSIVE SortedByTotal(_)
SortedByTotal(d) ==
    IF d = <<>> THEN <<>>
    ELSE InsertByTotal(SortedByTotal(Front(d)), Last(d))

\* the entries set on a top-10 gauge: enumerate(sorted_winners[:10])
Leaderboard(d) ==
    SubSeq(SortedByTotal(d), 1, IF Len(d) < TopN THEN Len(d) ELSE TopN)

\* the records appended for the events of a chunk
RecordsOf(evs) ==
    [i \in 1..Len(evs) |-> Record(evs[i].owner, evs[i].stake, evs[i].timestamp)]

---------------------------------------------------------------------------
(* The scan loop *)

\* variant: a chunk of exactly ChunkStep blocks, to_block = from_block + 9999
ToBlockExclusive(f, head) ==
    IF f + ChunkStep - 1 <= head THEN f + ChunkStep - 1 ELSE head

\* to_block = min(from_block + 10000, current_block)
ToBlock(f, head) ==
    IF f + ChunkStep <= head THEN f + ChunkStep ELSE head

\* variant: from_block is stored instead of to_block
SuccessCheckpointStale(f, t) == f

\* value stored in the checkpoint file after a chunk that succeeded
SuccessCheckpoint(f, t) == t

\* value stored after a chunk that raised: from_block = to_block + 1 is stored
FailureCheckpoint(f, t) == t + 1

---------------------------------------------------------------------------
(* Initial state: the files found on disk before the first run *)

InitialCheckpoints ==
    {Absent, Corrupt, NoKey, Denied, NotObject,
     Checkpoint(DeploymentBlock + 10001)}

\* winners file: missing, unparseable, a JSON scalar, old format, or
\* Scenario C's records
InitialWinnersFiles ==
    {Absent, Corrupt,
     Scalar,
     [kind |-> "dict", data |-> <<[owner |-> "A", total |-> 500]>>],
     [kind |-> "list",
      data |-> <<Record("A", 100, Now0 - 2 * SecondsPerDay),
                 Record("A", 50, Now0 - 40 * SecondsPerDay)>>]}

InitialStakersFiles ==
    {Absent, Corrupt,
     [kind |-> "dict", data |-> <<[owner |-> "A", total |-> 10]>>]}

\* main() has not been entered: there is no thread and no Counter
MainIdle ==
    /\ main_pc = "idle"
    /\ threads = <<>>
    /\ redistribution_errors = <<>>
    /\ failures = <<>>
    /\ opened = {}
    /\ faults = 0

InitMemory ==
    /\ ckpt_loaded = Unbound
    /\ last_block = 0 /\ from_block = 0 /\ to_block = 0
    /\ winners = <<>>
    /\ winners_data = Unbound
    /\ stakers = <<>>
    /\ stakers_data = <<>>
    /\ stakers_gauge = 0 /\ total_stake_gauge = 0
    /\ weekly_winners = <<>> /\ monthly_winners = <<>>
    /\ all_time_winners = <<>>
    /\ gauge_weekly = <<>> /\ gauge_monthly = <<>> /\ gauge = <<>>
    /\ errors = NoErrors

Init ==
    /\ \E uc \in UnitChains : unit = uc[1] /\ chain_name = uc[2]
    /\ pc = "idle"
    /\ run = 0
    /\ now = 0
    /\ current_block = 0
    /\ ckpt_file \in InitialCheckpoints
    /\ winners_file \in (IF unit = "winner" THEN InitialWinnersFiles ELSE {Absent})
    /\ stakers_file \in (IF unit = "staking" THEN InitialStakersFiles ELSE {Absent})
    /\ weekly_file = Absent /\ monthly_file = Absent
    /\ InitMemory
    /\ chunks = <<>>
    /\ ended = <<>>
    /\ MainIdle

---------------------------------------------------------------------------
(* One run of a unit *)

Running == pc \notin {"idle", "done", "raised", "crashed"}

Inc(e) == [errors EXCEPT ![e] = @ + 1]

\* while True: registry = CollectorRegistry(); main(registry); sleep(60)
\* and the start of the unit's thread; also the restart after a crash
StartRun ==
    /\ ~Running
    /\ run < MaxRuns
    /\ run' = run + 1
    /\ now' = Now0 + run * RunInterval
    /\ pc' = "read_head"
    /\ ckpt_loaded' = Unbound
    /\ last_block' = 0 /\ from_block' = 0 /\ to_block' = 0
    /\ winners' = <<>>
    /\ winners_data' = Unbound
    /\ stakers' = <<>>
    /\ stakers_data' = <<>>
    /\ stakers_gauge' = 0 /\ total_stake_gauge' = 0
    /\ weekly_winners' = <<>> /\ monthly_winners' = <<>>
    /\ all_time_winners' = <<>>
    /\ gauge_weekly' = <<>> /\ gauge_monthly' = <<>> /\ gauge' = <<>>
    /\ errors' = NoErrors
    /\ ended' = IF run = 0 THEN ended ELSE Append(ended, pc)
    /\ UNCHANGED <<mainVars, unit, chain_name, current_block, ckpt_file,
                   winners_file, stakers_file, weekly_file, monthly_file,
                   chunks>>

\* current_block = w3.eth.block_number; the node that answers may lag behind
\* the one of the previous run, so the value is not tied to the earlier one
ReadHead ==
    /\ pc = "read_head"
    /\ \E h \in Heads : current_block' = h
    /\ pc' = "load_ckpt"
    /\ UNCHANGED <<mainVars, ended, unit, chain_name, run, now, ckptVars, winnerVars,
                   stakerVars, aggVars, errors, chunks>>

\* the call raises: it is outside every try block, the thread ends
ReadHeadRaises ==
    /\ pc = "read_head"
    /\ pc' = "raised"
    /\ UNCHANGED <<mainVars, ended, unit, chain_name, run, now, current_block, ckptVars,
                   winnerVars, stakerVars, aggVars, errors, chunks>>

AfterCheckpoint(u) ==
    IF u = "winner" THEN "load_winners"
    ELSE IF u = "staking" THEN "load_stakers"
    ELSE "loop"

\* Load last processed block number
LoadCheckpoint ==
    /\ pc = "load_ckpt"
    /\ ~Raising(ckpt_file)
    /\ ckpt_loaded' = ckpt_file
    /\ last_block' = ReadLastBlock(ckpt_file)
    /\ IF Unreadable(ckpt_file)
       THEN /\ errors' = Inc(ReadLastBlockError(unit))
            /\ ckpt_file' = Checkpoint(DeploymentBlock)
       ELSE UNCHANGED <<errors, ckpt_file>>
    /\ from_block' = last_block' + 1
    /\ pc' = AfterCheckpoint(unit)
    /\ UNCHANGED <<mainVars, ended, unit, chain_name, run, now, current_block, to_block,
                   winnerVars, stakerVars, aggVars, chunks>>

\* open raises an OSError other than FileNotFoundError, or json.load returns
\* a value without a get method: no except clause applies
LoadCheckpointRaises ==
    /\ pc = "load_ckpt"
    /\ Raising(ckpt_file)
    /\ ckpt_loaded' = ckpt_file
    /\ pc' = "raised"
    /\ UNCHANGED <<mainVars, ended, unit, chain_name, run, now, current_block, ckpt_file,
                   last_block, from_block, to_block, winnerVars, stakerVars,
                   aggVars, errors, chunks>>

\* Load winners data, then remove winners older than 30 days
LoadWinners ==
    /\ pc = "load_winners"
    /\ winners_file.kind # "scalar"
    /\ winners_data' = winners_file
    /\ winners' = Prune(LoadWinnersFile(winners_file), thirty_days_ago(now))
    /\ errors' = IF Unreadable(winners_file)
                 THEN Inc("read_winners_file") ELSE errors
    /\ pc' = "loop"
    /\ UNCHANGED <<mainVars, ended, unit, chain_name, run, now, current_block, ckptVars,
                   winners_file, stakerVars, aggVars, chunks>>

\* the file holds valid JSON that cannot be iterated: json.load succeeds, no
\* except clause applies, the list comprehension raises TypeError
LoadWinnersRaises ==
    /\ pc = "load_winners"
    /\ winners_file.kind = "scalar"
    /\ winners_data' = winners_file
    /\ pc' = "raised"
    /\ UNCHANGED <<mainVars, ended, unit, chain_name, run, now, current_block, ckptVars,
                   winners, winners_file, stakerVars, aggVars, errors, chunks>>

\* Load stakers data
LoadStakers ==
    /\ pc = "load_stakers"
    /\ stakers' = LoadStakersFile(stakers_file)
    /\ stakers_data' = stakers'
    /\ errors' = IF Unreadable(stakers_file)
                 THEN Inc("read_stakers_file") ELSE errors
    /\ pc' = "loop"
    /\ UNCHANGED <<mainVars, ended, unit, chain_name, run, now, current_block, ckptVars,
                   winnerVars, stakers_file, stakers_gauge, total_stake_gauge,
                   aggVars, chunks>>

Chunk(f, t, ok, written) ==
    [run |-> run, from |-> f, to |-> t, ok |-> ok, written |-> written]

\* variant: the head is read again at every iteration of the loop
ScanChunkOKRereadingHead ==
    /\ pc = "loop"
    /\ from_block <= current_block
    /\ \E h \in Heads :
          LET t   == ToBlock(from_block, h)
              evs == GetLogs(from_block, t)
          IN  /\ current_block' = h
              /\ to_block' = t
              /\ winners' = IF unit = "winner"
                            THEN winners \o RecordsOf(evs) ELSE winners
              /\ stakers' = IF unit = "staking"
                            THEN UpdateStakers(stakers, evs) ELSE stakers
              /\ ckpt_file' = Checkpoint(SuccessCheckpoint(from_block, t))
              /\ chunks' = Append(chunks, Chunk(from_block, t, TRUE, TRUE))
              /\ IF unit = "staking"
                 THEN pc' = "save_stakers_chunk" /\ from_block' = from_block
                 ELSE pc' = "loop" /\ from_block' = t + 1
    /\ UNCHANGED <<mainVars, ended, unit, chain_name, run, now, ckpt_loaded,
                   last_block,
                   winners_file, winners_data, stakers_file, stakers_data, stakers_gauge,
                   total_stake_gauge, aggVars, errors>>

\* one iteration of the while loop whose try block completes
ScanChunkOK ==
    /\ pc = "loop"
    /\ from_block <= current_block
    /\ LET t   == ToBlock(from_block, current_block)
           evs == GetLogs(from_block, t)
       IN  /\ to_block' = t
           /\ winners' = IF unit = "winner"
                         THEN winners \o RecordsOf(evs) ELSE winners
           /\ stakers' = IF unit = "staking"
                         THEN UpdateStakers(stakers, evs) ELSE stakers
           /\ ckpt_file' = Checkpoint(SuccessCheckpoint(from_block, t))
           /\ chunks' = Append(chunks, Chunk(from_block, t, TRUE, TRUE))
           /\ IF unit = "staking"
              THEN pc' = "save_stakers_chunk" /\ from_block' = from_block
              ELSE pc' = "loop" /\ from_block' = t + 1
    /\ UNCHANGED <<mainVars, ended, unit, chain_name, run, now, current_block, ckpt_loaded,
                   last_block,
                   winners_file, winners_data, stakers_file, stakers_data, stakers_gauge,
                   total_stake_gauge, aggVars, errors>>

\* staking: save stakers data and set the gauges at the end of the try block
SaveStakersChunk ==
    /\ pc = "save_stakers_chunk"
    /\ \/ stakers_file' = [kind |-> "dict", data |-> stakers] /\ errors' = errors
       \/ stakers_file' = stakers_file /\ errors' = Inc("write_stakers_file")
    /\ stakers_gauge' = Len(stakers)
    /\ total_stake_gauge' = SumValues(stakers)
    /\ from_block' = to_block + 1
    /\ pc' = "loop"
    /\ UNCHANGED <<mainVars, ended, unit, chain_name, run, now, current_block, ckpt_file,
                   ckpt_loaded, last_block, to_block, winnerVars, stakers, stakers_data, aggVars,
                   chunks>>

\* variant: the except branch leaves from_block alone, the chunk is retried
ScanChunkFailRetrying ==
    /\ pc = "loop"
    /\ from_block <= current_block
    /\ LET t   == ToBlock(from_block, current_block)
           evs == GetLogs(from_block, t)
       IN  /\ to_block' = t
           /\ \E k \in 0..Len(evs) :
                 /\ k = 0 \/ (unit = "winner" /\ k < Len(evs))
                 /\ winners' = IF unit = "winner"
                               THEN winners \o RecordsOf(SubSeq(evs, 1, k))
                               ELSE winners
           /\ errors' = Inc(GetEventsError(unit))
           /\ from_block' = from_block
           /\ ckpt_file' = Checkpoint(FailureCheckpoint(from_block, t))
           /\ chunks' = Append(chunks, Chunk(from_block, t, FALSE, TRUE))
    /\ pc' = "loop"
    /\ UNCHANGED <<mainVars, ended, unit, chain_name, run, now, current_block, ckpt_loaded,
                   last_block,
                   winners_file, winners_data, stakerVars, aggVars>>

\* one iteration whose try block raises: get_logs fails, or (winner) the
\* get_block lookup of the event after the first k ones fails
ScanChunkFail ==
    /\ pc = "loop"
    /\ from_block <= current_block
    /\ LET t   == ToBlock(from_block, current_block)
           evs == GetLogs(from_block, t)
       IN  /\ to_block' = t
           /\ \E k \in 0..Len(evs) :
                 /\ k = 0 \/ (unit = "winner" /\ k < Len(evs))
                 /\ winners' = IF unit = "winner"
                               THEN winners \o RecordsOf(SubSeq(evs, 1, k))
                               ELSE winners
           /\ errors' = Inc(GetEventsError(unit))
           /\ from_block' = t + 1
           /\ ckpt_file' = Checkpoint(FailureCheckpoint(from_block, t))
           /\ chunks' = Append(chunks, Chunk(from_block, t, FALSE, TRUE))
    /\ pc' = "loop"
    /\ UNCHANGED <<mainVars, ended, unit, chain_name, run, now, current_block, ckpt_loaded,
                   last_block,
                   winners_file, winners_data, stakerVars, aggVars>>

AfterLoop(u) ==
    IF u = "winner" THEN "save_winners"
    ELSE IF u = "staking" THEN "save_stakers"
    ELSE "done"

\* the while condition from_block <= current_block is false
LoopExit ==
    /\ pc = "loop"
    /\ from_block > current_block
    /\ pc' = AfterLoop(unit)
    /\ UNCHANGED <<mainVars, ended, unit, chain_name, run, now, current_block, ckptVars,
                   winnerVars, stakerVars, aggVars, errors, chunks>>

\* variant: a failed save ends the function
SaveWinnersAborting ==
    /\ pc = "save_winners"
    /\ \/ /\ winners_file' = [kind |-> "list", data |-> winners]
          /\ errors' = errors
          /\ pc' = "aggregate"
       \/ /\ winners_file' \in {winners_file, Corrupt}
          /\ errors' = Inc("write_winners_file")
          /\ pc' = "raised"
    /\ UNCHANGED <<mainVars, ended, unit, chain_name, run, now, current_block, ckptVars,
                   winners, winners_data, stakerVars, aggVars, chunks>>

\* Save winners data; a failure (open raises and the file is as before, or
\* json.dump raises and the file is left truncated) is counted and the
\* function goes on
SaveWinners ==
    /\ pc = "save_winners"
    /\ \/ winners_file' = [kind |-> "list", data |-> winners] /\ errors' = errors
       \/ /\ winners_file' \in {winners_file, Corrupt}
          /\ errors' = Inc("write_winners_file")
    /\ pc' = "aggregate"
    /\ UNCHANGED <<mainVars, ended, unit, chain_name, run, now, current_block, ckptVars,
                   winners, winners_data, stakerVars, aggVars, chunks>>

\* Process Winners: the aggregation loop over winners, the weekly and the
\* monthly snapshot files (a failed write is counted) and the three gauges
ProcessWinners ==
    /\ pc = "aggregate"
    /\ all_time_winners' = AllTimeWinners(winners)
    /\ weekly_winners' = WeeklyWinners(winners, WeekOf(now))
    /\ monthly_winners' = MonthlyWinners(winners, MonthOf(now))
    /\ gauge_weekly' = Leaderboard(weekly_winners')
    /\ gauge_monthly' = Leaderboard(monthly_winners')
    /\ gauge' = Leaderboard(all_time_winners')
    /\ \E wok, mok \in BOOLEAN :
          /\ weekly_file' = IF wok THEN [kind |-> "dict", data |-> weekly_winners']
                                   ELSE weekly_file
          /\ monthly_file' = IF mok THEN [kind |-> "dict", data |-> monthly_winners']
                                    ELSE monthly_file
          /\ errors' = [errors EXCEPT
                 !["write_winners_weekly_file"] = IF wok THEN @ ELSE @ + 1,
                 !["write_winners_monthly_file"] = IF mok THEN @ ELSE @ + 1]
    /\ pc' = "done"
    /\ UNCHANGED <<mainVars, ended, unit, chain_name, run, now, current_block, ckptVars,
                   winnerVars, stakerVars, chunks>>

\* staking: save stakers data and set the gauges after the loop
SaveStakers ==
    /\ pc = "save_stakers"
    /\ \/ stakers_file' = [kind |-> "dict", data |-> stakers] /\ errors' = errors
       \/ stakers_file' = stakers_file /\ errors' = Inc("write_stakers_file")
    /\ stakers_gauge' = Len(stakers)
    /\ total_stake_gauge' = SumValues(stakers)
    /\ pc' = "done"
    /\ UNCHANGED <<mainVars, ended, unit, chain_name, run, now, current_block, ckptVars,
                   winnerVars, stakers, stakers_data, aggVars, chunks>>

---------------------------------------------------------------------------
(* Crashes of the process *)

\* the process is killed between two steps: memory is lost, files stay
Crash ==
    /\ Running
    /\ pc' = "crashed"
    /\ UNCHANGED <<mainVars, ended, unit, chain_name, run, now, current_block, ckptVars,
                   winnerVars, stakerVars, aggVars, errors, chunks>>

\* the process is killed inside "with open(file, 'w')": the checkpoint file
\* has been truncated and json.dump has not completed
CrashInCheckpointWrite ==
    /\ \/ /\ pc = "load_ckpt" /\ Unreadable(ckpt_file)
          /\ chunks' = chunks
       \/ /\ pc = "loop" /\ from_block <= current_block
          /\ \E ok \in BOOLEAN :
                chunks' = Append(chunks,
                    Chunk(from_block, ToBlock(from_block, current_block),
                          ok, FALSE))
    /\ ckpt_file' = Corrupt
    /\ pc' = "crashed"
    /\ UNCHANGED <<mainVars, ended, unit, chain_name, run, now, current_block, ckpt_loaded,
                   last_block,
                   from_block, to_block, winnerVars, stakerVars, aggVars,
                   errors>>

Next ==
    \/ StartRun
    \/ ReadHead
    \/ ReadHeadRaises
    \/ LoadCheckpoint
    \/ LoadCheckpointRaises
    \/ LoadWinners
    \/ LoadWinnersRaises
    \/ LoadStakers
    \/ ScanChunkOK
    \/ SaveStakersChunk
    \/ ScanChunkFail
    \/ LoopExit
    \/ SaveWinners
    \/ ProcessWinners
    \/ SaveStakers
    \/ Crash
    \/ CrashInCheckpointWrite

Spec == Init /\ [][Next]_vars

---------------------------------------------------------------------------
(* Scan specification: one run of a unit, from the start of its thread to  *)
(* the return of its function, the process staying up                      *)

\* the thread of the unit is started
FirstRun == run = 0 /\ StartRun

NextScan ==
    \/ FirstRun
    \/ ReadHead
    \/ ReadHeadRaises
    \/ LoadCheckpoint
    \/ LoadCheckpointRaises
    \/ LoadWinners
    \/ LoadWinnersRaises
    \/ LoadStakers
    \/ ScanChunkOK
    \/ SaveStakersChunk
    \/ ScanChunkFail
    \/ LoopExit
    \/ SaveWinners
    \/ ProcessWinners
    \/ SaveStakers

SpecScan == Init /\ [][NextScan]_vars

\* the thread inside the while loop is scheduled again and again and every
\* upstream call it makes returns or raises: an iteration that can be taken is
\* taken (its try block completes or its except branch runs), and so is the
\* evaluation of the while condition that ends the loop
SpecScanFair ==
    /\ SpecScan
    /\ WF_vars(ScanChunkOK \/ ScanChunkFail)
    /\ WF_vars(SaveStakersChunk)
    /\ WF_vars(LoopExit)

---------------------------------------------------------------------------
(* Aggregation specification: a winner run with nothing to scan, started   *)
(* at the load of a winners file drawn from a pool of records              *)

RecordPool ==
    {Record("A", 100, Now0 - 2 * SecondsPerDay),
     Record("B", 100, Now0 - 2 * SecondsPerDay),
     Record("A", 50, Now0 - 10 * SecondsPerDay),
     Record("B", 70, Now0 - 29 * SecondsPerDay),
     Record("A", 5, thirty_days_ago(Now0)),
     Record("B", 7, thirty_days_ago(Now0) - 1),
     Record("A", 50, Now0 - 40 * SecondsPerDay)}

RECURSIVE SeqsUpTo(_, _)
SeqsUpTo(S, n) ==
    IF n = 0 THEN {<<>>}
    ELSE LET shorter == SeqsUpTo(S, n - 1)
         IN  shorter \cup {Append(q, x) : q \in shorter, x \in S}

AggWinnersFiles ==
    {[kind |-> "list", data |-> q] : q \in SeqsUpTo(RecordPool, MaxRecords)}
    \cup {[kind |-> "dict", data |-> <<[owner |-> "A", total |-> 500]>>]}

\* Now0 is a Wednesday; four days later is the Sunday that opens a new week
AggNows == {Now0, Now0 + 4 * SecondsPerDay}

InitAgg ==
    /\ unit = "winner" /\ chain_name = "gnosis"
    /\ pc = "load_winners"
    /\ run = 1
    /\ now \in AggNows
    /\ current_block = DeploymentBlock
    /\ ckpt_file = Checkpoint(DeploymentBlock)
    /\ winners_file \in AggWinnersFiles
    /\ stakers_file = Absent
    /\ weekly_file = Absent /\ monthly_file = Absent
    /\ ckpt_loaded = Checkpoint(DeploymentBlock)
    /\ last_block = DeploymentBlock
    /\ from_block = DeploymentBlock + 1
    /\ to_block = 0
    /\ winners = <<>>
    /\ winners_data = Unbound
    /\ stakers = <<>>
    /\ stakers_data = <<>>
    /\ stakers_gauge = 0 /\ total_stake_gauge = 0
    /\ weekly_winners = <<>> /\ monthly_winners = <<>>
    /\ all_time_winners = <<>>
    /\ gauge_weekly = <<>> /\ gauge_monthly = <<>> /\ gauge = <<>>
    /\ errors = NoErrors
    /\ chunks = <<>>
    /\ ended = <<>>
    /\ MainIdle

NextAgg ==
    \/ LoadWinners
    \/ LoopExit
    \/ SaveWinners
    \/ ProcessWinners

SpecAgg == InitAgg /\ [][NextAgg]_vars

\* A winner run with more owners than a leaderboard has places: every owner
\* has one record of the run's week, with stake 1 or 2, and the file may
\* start with one more record, of the week before, of the first or of the
\* last of the owners.
MaxOwners == 11

BoardOwner(i) == ToString(i)

BoardWinnersFiles ==
    {[kind |-> "list",
      data |-> (IF e = 0 THEN <<>>
                ELSE <<Record(BoardOwner(e), 1, Now0 - 5 * SecondsPerDay)>>)
               \o [i \in 1..MaxOwners |->
                      Record(BoardOwner(i), f[i], Now0 - SecondsPerDay)]] :
        e \in {0, 1, MaxOwners}, f \in [1..MaxOwners -> {1, 2}]}

InitBoard ==
    /\ unit = "winner" /\ chain_name = "gnosis"
    /\ pc = "load_winners"
    /\ run = 1
    /\ now = Now0
    /\ current_block = DeploymentBlock
    /\ ckpt_file = Checkpoint(DeploymentBlock)
    /\ winners_file \in BoardWinnersFiles
    /\ stakers_file = Absent
    /\ weekly_file = Absent /\ monthly_file = Absent
    /\ ckpt_loaded = Checkpoint(DeploymentBlock)
    /\ last_block = DeploymentBlock
    /\ from_block = DeploymentBlock + 1
    /\ to_block = 0
    /\ winners = <<>>
    /\ winners_data = Unbound
    /\ stakers = <<>>
    /\ stakers_data = <<>>
    /\ stakers_gauge = 0 /\ total_stake_gauge = 0
    /\ weekly_winners = <<>> /\ monthly_winners = <<>>
    /\ all_time_winners = <<>>
    /\ gauge_weekly = <<>> /\ gauge_monthly = <<>> /\ gauge = <<>>
    /\ errors = NoErrors
    /\ chunks = <<>>
    /\ ended = <<>>
    /\ MainIdle

SpecBoard == InitBoard /\ [][NextAgg]_vars

---------------------------------------------------------------------------
(* The process: main() starts one thread per unit, joins them, queries the *)
(* contracts and pushes the registry, in an endless loop. The threads are  *)
(* followed through the steps that count an error or open a file.          *)

\* faults that occur in one run, at most
MaxFaults == 2

\* threads in the order in which main() starts and joins them
ThreadOrder ==
    << <<"winner", "gnosis">>,
       <<"redistribution", "sepolia">>, <<"staking", "sepolia">>,
       <<"redistribution", "gnosis">>, <<"staking", "gnosis">> >>

\* variant: both units of a chain keep their checkpoint in one file
LastBlockFileShared(T) ==
    IF T[1] = "winner" THEN <<"last_block.json">>
    ELSE <<"last_block_redistribution", T[2]>>

\* LAST_BLOCK_FILE and the last_block_file_path of the two other units
LastBlockFile(T) ==
    IF T[1] = "winner" THEN <<"last_block.json">>
    ELSE IF T[1] = "redistribution" THEN <<"last_block_redistribution", T[2]>>
    ELSE <<"last_block_staking", T[2]>>

\* winners_file_path and stakers_file_path
StoreFile(T) ==
    IF T[1] = "winner" THEN <<"winners", T[2]>> ELSE <<"stakers", T[2]>>

WeeklyFile(T) == <<"winners-weekly", T[2]>>

MonthlyFile(T) == <<"winners-monthly", T[2]>>

ReadStoreError(u) ==
    IF u = "winner" THEN "read_winners_file" ELSE "read_stakers_file"

WriteStoreError(u) ==
    IF u = "winner" THEN "write_winners_file" ELSE "write_stakers_file"

\* variant: labels(...).inc() as a store that forgets earlier increments
CountOnce(counter, T, e) == [counter EXCEPT ![<<T[2], e>>] = 1]

\* error_counter.labels(chain_name=chain_name, error_type=e).inc(): the
\* child's value is updated under its lock
Count(counter, T, e) == [counter EXCEPT ![<<T[2], e>>] = @ + 1]

Terminated(T) == threads[T] \in {"done", "raised"}

\* variant: only the winner thread is joined
JoinedWinnerOnly == {ThreadOrder[1]}

\* for thread in threads: thread.join()
Joined == {ThreadOrder[i] : i \in 1..Len(ThreadOrder)}

UnitIdle ==
    /\ unit = "winner" /\ chain_name = "gnosis"
    /\ pc = "idle"
    /\ run = 0
    /\ now = 0
    /\ current_block = 0
    /\ ckpt_file = Absent
    /\ winners_file = Absent
    /\ stakers_file = Absent
    /\ weekly_file = Absent /\ monthly_file = Absent
    /\ InitMemory
    /\ chunks = <<>>
    /\ ended = <<>>

\* registry = CollectorRegistry(); main(registry) is entered
NewRun ==
    /\ main_pc' = "create_gauges"
    /\ threads' = [T \in UnitChains |-> "unstarted"]
    /\ redistribution_errors' = NoFailures
    /\ failures' = NoFailures
    /\ opened' = {}
    /\ faults' = 0

InitMain ==
    /\ UnitIdle
    /\ main_pc = "create_gauges"
    /\ threads = [T \in UnitChains |-> "unstarted"]
    /\ redistribution_errors = NoFailures
    /\ failures = NoFailures
    /\ opened = {}
    /\ faults = 0

\* the Counter and the gauges of all contracts are created
CreateGauges ==
    /\ main_pc = "create_gauges"
    /\ main_pc' = "start_threads"
    /\ UNCHANGED <<unitVars, threads, redistribution_errors, failures,
                   opened, faults>>

\* get_abi raises for one of the contracts (abi file missing or not JSON):
\* the exception leaves main() and the while loop
CreateGaugesRaises ==
    /\ main_pc = "create_gauges"
    /\ faults < MaxFaults
    /\ faults' = faults + 1
    /\ main_pc' = "exited"
    /\ UNCHANGED <<unitVars, threads, redistribution_errors, failures,
                   opened>>

\* the next thread is created and started; after the last one main() joins
StartThread ==
    /\ main_pc = "start_threads"
    /\ \E i \in 1..Len(ThreadOrder) :
          /\ threads[ThreadOrder[i]] = "unstarted"
          /\ \A j \in 1..(i - 1) : threads[ThreadOrder[j]] # "unstarted"
          /\ threads' = [threads EXCEPT ![ThreadOrder[i]] = "load_ckpt"]
          /\ main_pc' = IF i = Len(ThreadOrder) THEN "join" ELSE main_pc
    /\ UNCHANGED <<unitVars, redistribution_errors, failures, opened,
                   faults>>

\* the join loop returns
Join ==
    /\ main_pc = "join"
    /\ \A T \in Joined : Terminated(T)
    /\ main_pc' = "query"
    /\ UNCHANGED <<unitVars, threads, redistribution_errors, failures,
                   opened, faults>>

\* Query Contract Metrics: every call is inside a try block
Query ==
    /\ main_pc = "query"
    /\ main_pc' = "push"
    /\ UNCHANGED <<unitVars, threads, redistribution_errors, failures,
                   opened, faults>>

\* push_to_gateway succeeds or raises inside its try block
Push ==
    /\ main_pc = "push"
    /\ main_pc' = "sleep"
    /\ UNCHANGED <<unitVars, threads, redistribution_errors, failures,
                   opened, faults>>

\* time.sleep(60), then the next iteration of while True
Sleep ==
    /\ main_pc = "sleep"
    /\ NewRun
    /\ UNCHANGED unitVars

\* a step of thread T: at most one error is counted (fails), fs are the
\* files of the step's open(file, 'w') statements, whichever branch is
\* taken, and the thread goes on at next unless it raises
ThreadStep(T, fails, e, fs, raises, next) ==
    /\ (fails \/ raises) => faults < MaxFaults
    /\ faults' = IF fails \/ raises THEN faults + 1 ELSE faults
    /\ redistribution_errors' =
          IF fails THEN Count(redistribution_errors, T, e)
          ELSE redistribution_errors
    /\ failures' = IF fails THEN [failures EXCEPT ![<<T[2], e>>] = @ + 1]
                   ELSE failures
    /\ opened' = opened \cup {<<f, T>> : f \in fs}
    /\ threads' = [threads EXCEPT ![T] = IF raises THEN "raised" ELSE next]
    /\ UNCHANGED <<unitVars, main_pc>>

\* the head is read (it may raise) and the checkpoint file is loaded; the
\* except branch counts the error and writes the file
ThreadLoadCheckpoint(T) ==
    /\ threads[T] = "load_ckpt"
    /\ \E fails, raises \in BOOLEAN :
          /\ ~(fails /\ raises)
          /\ ThreadStep(T, fails, ReadLastBlockError(T[1]),
                        {LastBlockFile(T)}, raises, AfterCheckpoint(T[1]))

\* the winners or the stakers file is loaded, then get_abi may raise
ThreadLoadStore(T) ==
    /\ threads[T] \in {"load_winners", "load_stakers"}
    /\ \E fails, raises \in BOOLEAN :
          ThreadStep(T, fails, ReadStoreError(T[1]), {}, raises, "loop")

\* one iteration of the while loop: get_logs fails, or (staking) the save
\* of the stakers file fails, or nothing fails; the checkpoint is written
ThreadChunk(T) ==
    /\ threads[T] = "loop"
    /\ LET fs == {LastBlockFile(T)} \cup
                    (IF T[1] = "staking" THEN {StoreFile(T)} ELSE {})
       IN  \/ ThreadStep(T, FALSE, GetEventsError(T[1]), fs, FALSE, "loop")
           \/ ThreadStep(T, TRUE, GetEventsError(T[1]), fs, FALSE, "loop")
           \/ /\ T[1] = "staking"
              /\ ThreadStep(T, TRUE, WriteStoreError(T[1]), fs, FALSE, "loop")

\* the while condition is false
ThreadLoopExit(T) ==
    /\ threads[T] = "loop"
    /\ ThreadStep(T, FALSE, GetEventsError(T[1]), {}, FALSE, AfterLoop(T[1]))

\* the winners or the stakers file is saved after the loop
ThreadSave(T) ==
    /\ threads[T] \in {"save_winners", "save_stakers"}
    /\ \E fails \in BOOLEAN :
          ThreadStep(T, fails, WriteStoreError(T[1]), {StoreFile(T)}, FALSE,
                     IF T[1] = "winner" THEN "aggregate" ELSE "done")

\* the weekly totals are saved and the weekly gauge is set
ThreadWeekly(T) ==
    /\ threads[T] = "aggregate"
    /\ \E fails \in BOOLEAN :
          ThreadStep(T, fails, "write_winners_weekly_file", {WeeklyFile(T)},
                     FALSE, "monthly")

\* the monthly totals are saved, the monthly and the all-time gauge are set
ThreadMonthly(T) ==
    /\ threads[T] = "monthly"
    /\ \E fails \in BOOLEAN :
          ThreadStep(T, fails, "write_winners_monthly_file", {MonthlyFile(T)},
                     FALSE, "done")

Thread(T) ==
    \/ ThreadLoadCheckpoint(T)
    \/ ThreadLoadStore(T)
    \/ ThreadChunk(T)
    \/ ThreadLoopExit(T)
    \/ ThreadSave(T)
    \/ ThreadWeekly(T)
    \/ ThreadMonthly(T)

NextMain ==
    \/ CreateGauges
    \/ CreateGaugesRaises
    \/ StartThread
    \/ Join
    \/ Query
    \/ Push
    \/ Sleep
    \/ \E T \in UnitChains : Thread(T)

SpecMain == InitMain /\ [][NextMain]_vars

---------------------------------------------------------------------------
(* Properties *)

\* the chunks requested in the current run, in order
ChunksOfRun == SelectSeq(chunks, LAMBDA c : c.run = run)

\* the checkpoint of the current run has been loaded: from_block is bound
\* (block numbers are not negative, 0 stands for the unbound local)
CheckpointLoaded == run >= 1 /\ from_block > 0

RECURSIVE SumStakes(_, _)
\* sum of the stakes of the records of ws at the indices I
SumStakes(ws, I) ==
    IF I = {} THEN 0
    ELSE LET i == CHOOSE j \in I : TRUE
         IN  ws[i].stake + SumStakes(ws, I \ {i})

\* d maps exactly the owners with a record at an index of I to their sum
TotalsAre(d, ws, I) ==
    /\ Len(d) = Cardinality(Keys(d))
    /\ Keys(d) = {ws[i].owner : i \in I}
    /\ \A o \in Keys(d) :
          Get(d, o) = SumStakes(ws, {i \in I : ws[i].owner = o})

\* C1: the value persisted in a unit's checkpoint file never decreases while
\* the file stays readable, over chunk successes, chunk failures and runs.
C1_CheckpointNeverDecreases ==
    [][(ckpt_file.kind = "ok" /\ ckpt_file'.kind = "ok")
          => ckpt_file'.val >= ckpt_file.val]_vars

\* a second run has advanced the checkpoint after a first run with a failed chunk
C1_Witness ==
    /\ run = 2
    /\ ckpt_file.kind = "ok"
    /\ \E i \in 1..Len(chunks) :
          chunks[i].run = 1 /\ ~chunks[i].ok /\ chunks[i].written
    /\ \E j \in 1..Len(chunks) : chunks[j].run = 2 /\ chunks[j].written

\* C2: the checkpoint value written by a scan is never greater than the head
\* snapshot of that scan, whether the last chunk succeeded or failed.
C2_CheckpointAtMostHead ==
    (chunks # <<>> /\ Last(chunks).run = run /\ Last(chunks).written)
       => (ckpt_file.kind = "ok" /\ ckpt_file.val <= current_block)

\* the events of a chunk that are inside the retention window at every run
Retained(evs) ==
    SelectSeq(evs, LAMBDA e : e.timestamp > thirty_days_ago(Now0 + MaxRuns * RunInterval))

\* the content of the persisted store of the unit holds the events evs
InStore(evs) ==
    IF unit = "winner"
    THEN \A i \in 1..Len(evs) :
            \E j \in 1..Len(LoadWinnersFile(winners_file)) :
               LoadWinnersFile(winners_file)[j] = RecordsOf(evs)[i]
    ELSE IF unit = "staking"
    THEN \A i \in 1..Len(evs) :
            evs[i].owner \in Keys(LoadStakersFile(stakers_file))
    ELSE TRUE

\* C3: whenever the persisted checkpoint is at or past the upper bound of a
\* chunk that was scanned successfully, the data decoded from that chunk is
\* already in the persisted store of the unit.
C3_CheckpointOnlyAfterStore ==
    \A i \in 1..Len(chunks) :
       (chunks[i].ok /\ chunks[i].written
          /\ ckpt_file.kind = "ok" /\ ckpt_file.val >= chunks[i].to)
       => InStore(Retained(GetLogs(chunks[i].from, chunks[i].to)))

\* C4: a failed chunk [f,t] sets the persisted checkpoint to exactly t, adds
\* exactly 1 to the unit's get-events error tally and the scan goes on at t+1.
C4_FailedChunkCheckpoint ==
    [][(Len(chunks') = Len(chunks) + 1
          /\ ~Last(chunks').ok /\ Last(chunks').written)
       => /\ ckpt_file' = Checkpoint(Last(chunks').to)
          /\ errors' = Inc(GetEventsError(unit))
          /\ from_block' = Last(chunks').to + 1]_vars

\* the chunks of the run start at last_block + 1 and advance by `size` blocks,
\* each ending size - 1 blocks after its start or at the head snapshot
ChunksHaveSize(size) ==
    \A i \in 1..Len(ChunksOfRun) :
       LET f == last_block + 1 + (i - 1) * size
       IN  /\ ChunksOfRun[i].from = f
           /\ ChunksOfRun[i].to =
                 (IF f + size - 1 <= current_block
                  THEN f + size - 1 ELSE current_block)

Range(f, t) == [from |-> f, to |-> t]

RangesOfRun == [i \in 1..Len(ChunksOfRun) |->
                   Range(ChunksOfRun[i].from, ChunksOfRun[i].to)]

ScanFinished == CheckpointLoaded /\ pc # "crashed" /\ from_block > current_block

\* C5 as stated: the scan splits [c+1, h] into chunks of 10,000 blocks,
\* [c+1, c+10000], [c+10001, c+20000], ...; from 1000 to head 25000 the
\* chunks are [1001,11000], [11001,21000], [21001,25000].
C5_ChunksOfTenThousandBlocks ==
    /\ CheckpointLoaded => ChunksHaveSize(ChunkStep)
    /\ (ScanFinished /\ last_block = 1000 /\ current_block = 25000)
          => RangesOfRun = <<Range(1001, 11000), Range(11001, 21000),
                             Range(21001, 25000)>>

\* C5 amended: each chunk is [f, min(f + 10000, h)], 10,001 blocks long,
\* [c+1, c+10001], [c+10002, c+20002], ...; from 1000 to head 25000 the
\* chunks are [1001,11001], [11002,21002], [21003,25000].
C5_ChunksOfStepPlusOne ==
    /\ CheckpointLoaded => ChunksHaveSize(ChunkStep + 1)
    /\ (ScanFinished /\ last_block = 1000 /\ current_block = 25000)
          => RangesOfRun = <<Range(1001, 11001), Range(11002, 21002),
                             Range(21003, 25000)>>

\* a scan from the deployment block to a head 24,000 blocks later has ended
\* after three chunks
C5_Witness ==
    /\ ScanFinished
    /\ last_block = DeploymentBlock
    /\ current_block = DeploymentBlock + 24000
    /\ Len(ChunksOfRun) = 3

\* every chunk whose checkpoint write completed in an earlier run lies at or
\* below the checkpoint read by the current run
CompletedChunksKept ==
    \A i \in 1..Len(chunks) :
       (chunks[i].run < run /\ chunks[i].written) => last_block >= chunks[i].to

AfterCrash == run >= 2 /\ ended[run - 1] = "crashed" /\ CheckpointLoaded

\* C6 as stated: after a crash at any point of a scan, between chunks or
\* during a checkpoint file rewrite, the checkpoint read at the next start is
\* at least the upper bound of every chunk whose checkpoint write completed.
C6_CrashKeepsCheckpoint ==
    AfterCrash => CompletedChunksKept

\* no rewrite of the checkpoint file has been interrupted so far
NoInterruptedRewrite == \A i \in 1..Len(chunks) : chunks[i].written

\* C6 amended: after a crash between two steps of a scan, no checkpoint file
\* rewrite having been interrupted, the checkpoint read at the next start is
\* at least the upper bound of every chunk whose checkpoint write completed.
C6_CrashBetweenStepsKeepsCheckpoint ==
    (AfterCrash /\ NoInterruptedRewrite) => CompletedChunksKept

\* a run after a crash resumes from a checkpoint advanced by the crashed run
C6_Witness ==
    /\ AfterCrash
    /\ NoInterruptedRewrite
    /\ \E i \in 1..Len(chunks) : chunks[i].run < run /\ chunks[i].written
    /\ last_block > DeploymentBlock

\* the winners have been loaded and pruned and no chunk has been scanned yet
JustPruned == unit = "winner" /\ pc = "loop" /\ from_block = last_block + 1

\* C7: prune keeps a record exactly when its timestamp is not older than
\* now - 30 days; a record at the boundary now - 30 days is kept.
C7_PruneKeepsBoundary ==
    JustPruned =>
       winners = SelectSeq(LoadWinnersFile(winners_file),
                           LAMBDA w : w.timestamp >= thirty_days_ago(now))

Aggregated == unit = "winner" /\ pc = "done"

\* indices of the records of ws that are not older than the horizon
InHorizon(ws) == {i \in 1..Len(ws) : ws[i].timestamp >= thirty_days_ago(now)}

InWeek(ws) == {i \in 1..Len(ws) : WeekOf(ws[i].timestamp) = WeekOf(now)}

InMonth(ws) == {i \in 1..Len(ws) : MonthOf(ws[i].timestamp) = MonthOf(now)}

\* C8: no record older than the 30-day horizon contributes to all_time,
\* weekly or monthly of the run, records appended by the run's scan included.
C8_AggregatesFromHorizonOnly ==
    Aggregated =>
       /\ TotalsAre(all_time_winners, winners, InHorizon(winners))
       /\ TotalsAre(weekly_winners, winners,
                    InHorizon(winners) \cap InWeek(winners))
       /\ TotalsAre(monthly_winners, winners,
                    InHorizon(winners) \cap InMonth(winners))

\* C9: all_time[o] is the sum of all records of o, weekly[o] the sum of o's
\* records in the run's week bucket, monthly[o] the sum of o's records in the
\* run's month bucket; an owner without contributing record is absent.
C9_AggregateTotals ==
    Aggregated =>
       /\ TotalsAre(all_time_winners, winners, 1..Len(winners))
       /\ TotalsAre(weekly_winners, winners, InWeek(winners))
       /\ TotalsAre(monthly_winners, winners, InMonth(winners))

\* an owner has a record in the run's week and one in the run's month only,
\* and another owner, whose records are all outside the month, is missing
\* from the monthly totals
C9_Witness ==
    /\ Aggregated
    /\ \E o \in Keys(weekly_winners) :
          /\ Get(weekly_winners, o) < Get(monthly_winners, o)
          /\ Cardinality({i \in 1..Len(winners) : winners[i].owner = o}) >= 2
    /\ Keys(all_time_winners) \ Keys(monthly_winners) # {}

\* the sequence ws reordered by the permutation p of its indices
Permuted(ws, p) == [i \in 1..Len(ws) |-> ws[p[i]]]

\* C10: for every permutation of the record sequence the weekly, monthly and
\* all_time mappings are the same mappings; only insertion order may differ.
C10_PermutationInvariant ==
    Aggregated =>
       \A p \in Permutations(1..Len(winners)) :
          /\ AsMap(AllTimeWinners(Permuted(winners, p))) = AsMap(all_time_winners)
          /\ AsMap(WeeklyWinners(Permuted(winners, p), WeekOf(now)))
                = AsMap(weekly_winners)
          /\ AsMap(MonthlyWinners(Permuted(winners, p), MonthOf(now)))
                = AsMap(monthly_winners)

\* some permutation of the records changes the insertion order of the owners
\* and an owner's total is the sum of several records
C10_Witness ==
    /\ Aggregated
    /\ \E p \in Permutations(1..Len(winners)) :
          AllTimeWinners(Permuted(winners, p)) # all_time_winners
    /\ \E o \in Keys(all_time_winners) :
          Cardinality({i \in 1..Len(winners) : winners[i].owner = o}) >= 2

\* the position of the first record of owner o among the records I of ws
FirstSeen(ws, I, o) ==
    CHOOSE i \in I : /\ ws[i].owner = o
                     /\ \A j \in I : ws[j].owner = o => i <= j

\* g is a leaderboard of the totals d, which were accumulated from the
\* records I of ws
IsLeaderboard(g, d, ws, I) ==
    /\ Len(g) <= 10
    /\ Len(g) = (IF Len(d) < 10 THEN Len(d) ELSE 10)
    /\ \A i \in 1..Len(g) : /\ g[i].owner \in Keys(d)
                             /\ g[i].total = Get(d, g[i].owner)
    /\ \A i, j \in 1..Len(g) : i < j =>
          /\ g[i].owner # g[j].owner
          /\ g[i].total >= g[j].total
          /\ g[i].total = g[j].total =>
                FirstSeen(ws, I, g[i].owner) < FirstSeen(ws, I, g[j].owner)
    /\ \A o \in Keys(d) \ {g[i].owner : i \in 1..Len(g)} :
          \A i \in 1..Len(g) : g[i].total >= Get(d, o)

LegacyLoaded == unit = "winner" /\ winners_data.kind = "dict"

\* the owners of the events of the chunks the current run has scanned
ScannedOwners ==
    {e.owner : e \in
        UNION {{GetLogs(c.from, c.to)[i] : i \in 1..Len(GetLogs(c.from, c.to))} :
               c \in {ChunksOfRun[k] : k \in 1..Len(ChunksOfRun)}}}

\* C12: a winners file of the old format is loaded as one record per owner
\* with timestamp 0, none of these records is left after the prune of the
\* same run, and an owner known only from that file is absent from the
\* all-time totals of the run.
C12_LegacyStorePruned ==
    LegacyLoaded =>
       LET legacy == winners_data.data
           loaded == LoadWinnersFile(winners_data)
       IN  /\ Len(loaded) = Len(legacy)
           /\ \A i \in 1..Len(legacy) :
                 /\ loaded[i].owner = legacy[i].owner
                 /\ loaded[i].stake = legacy[i].total
                 /\ loaded[i].timestamp = 0
           /\ \A i \in 1..Len(winners), j \in 1..Len(loaded) :
                 winners[i] # loaded[j]
           /\ Aggregated =>
                 \A o \in Keys(legacy) \ ScannedOwners :
                    o \notin Keys(all_time_winners)

\* Scenario D with a scan that finds events of another owner only
C12_Witness ==
    /\ LegacyLoaded /\ Aggregated
    /\ Keys(winners_data.data) \ ScannedOwners # {}
    /\ all_time_winners # <<>>

\* C13: a winners file that is absent, unparseable, or valid JSON of another
\* shape than the old map or a list of records is loaded as an empty store
\* with one read_winners_file error counted, and the unit goes on.
C13_BadStoreTolerated ==
    (unit = "winner" /\ winners_data.kind \in {"absent", "corrupt", "scalar"})
       => /\ pc # "raised"
          /\ errors["read_winners_file"] = 1

\* C14: a run that finds its checkpoint file absent, unreadable or corrupt
\* scans from the deployment block (first chunk at deployment block + 1) and
\* counts exactly one read_last_block* error of its unit; a run that finds a
\* readable checkpoint file counts none.
C14_CheckpointFallback ==
    pc \notin {"crashed", "load_ckpt"} =>
       /\ ckpt_loaded.kind \in {"absent", "corrupt", "denied", "notobject"} =>
             /\ last_block = DeploymentBlock
             /\ from_block >= DeploymentBlock + 1
             /\ errors[ReadLastBlockError(unit)] = 1
             /\ ChunksOfRun # <<>> => ChunksOfRun[1].from = DeploymentBlock + 1
       /\ ckpt_loaded.kind \in {"ok", "nokey"} =>
             errors[ReadLastBlockError(unit)] = 0

\* the save of the winners file has failed in the current run
SaveFailed == unit = "winner" /\ errors["write_winners_file"] >= 1

\* C15: a failed save of the winners file is counted once and does not end
\* the unit; the totals and the three leaderboards of the run are those of
\* the records in memory, whatever the file holds.
C15_SaveFailureNonFatal ==
    SaveFailed =>
       /\ errors["write_winners_file"] = 1
       /\ pc \in {"aggregate", "done", "crashed"}
       /\ Aggregated =>
             /\ TotalsAre(all_time_winners, winners, 1..Len(winners))
             /\ TotalsAre(weekly_winners, winners, InWeek(winners))
             /\ TotalsAre(monthly_winners, winners, InMonth(winners))
             /\ IsLeaderboard(gauge, all_time_winners, winners,
                              1..Len(winners))
             /\ IsLeaderboard(gauge_weekly, weekly_winners, winners,
                              InWeek(winners))
             /\ IsLeaderboard(gauge_monthly, monthly_winners, winners,
                              InMonth(winners))

\* the file does not hold the records in memory (it still has records that
\* the prune has removed), and the totals of the records in memory are
\* published
C15_Witness ==
    /\ SaveFailed /\ Aggregated
    /\ winners # <<>>
    /\ LoadWinnersFile(winners_file) # winners
    /\ gauge # <<>>

\* C16: main() queries the contracts and pushes only after every unit thread
\* has ended; a thread that has raised counts as ended for the join, and no
\* running thread and no later step of main() waits for it.
C16_JoinBarrier ==
    /\ main_pc \in {"query", "push"} => \A T \in UnitChains : Terminated(T)
    /\ \A T \in UnitChains :
          threads[T] \notin {"unstarted", "done", "raised"} => ENABLED Thread(T)
    /\ (main_pc = "join" /\ \A T \in UnitChains : Terminated(T)) => ENABLED Join
    /\ main_pc = "query" => ENABLED Query
    /\ main_pc = "push" => ENABLED Push

\* the run pushes although a thread has raised, and a sibling that was
\* started before it has run to its end
C16_Witness ==
    /\ main_pc = "push"
    /\ threads[ThreadOrder[3]] = "raised"
    /\ threads[ThreadOrder[2]] = "done"
    /\ threads[ThreadOrder[5]] = "done"

\* C17: whatever fault occurs, main() returns and the loop starts the next
\* run: the process never leaves the loop.
C17_NoFaultFatal == main_pc # "exited"

\* C18: no file is opened for writing by two different threads of a run.
C18_FilesHaveOneWriter ==
    \A p, q \in opened : p[1] = q[1] => p[2] = q[2]

\* all five threads have ended and have passed all their writes: four files
\* of the winner unit, one of each redistribution unit, two of each staking
\* unit
C18_Witness ==
    /\ \A T \in UnitChains : threads[T] = "done"
    /\ {p[2] : p \in opened} = UnitChains
    /\ Cardinality({p[1] : p \in opened}) = 10

C20_PruneIdempotent ==
    JustPruned =>
       /\ winners = Prune(LoadWinnersFile(winners_data), thirty_days_ago(now))
       /\ Prune(winners, thirty_days_ago(now)) = winners

\* the prune has removed at least two records and has kept at least one
C20_Witness ==
    /\ JustPruned
    /\ winners # <<>>
    /\ Len(LoadWinnersFile(winners_data)) >= Len(winners) + 2

---------------------------------------------------------------------------
(* The scan of one run *)

\* the while loop of the run has been left
LoopLeft == CheckpointLoaded /\ pc \in {"save_winners", "aggregate", "save_stakers", "done"}

\* every chunk of the run lies between the loaded checkpoint + 1 and the head
\* snapshot of the run
ChunksWithinSnapshot ==
    \A i \in 1..Len(ChunksOfRun) :
       /\ last_block + 1 <= ChunksOfRun[i].from
       /\ ChunksOfRun[i].from <= ChunksOfRun[i].to
       /\ ChunksOfRun[i].to <= current_block

\* the chunks of the run are ascending and contiguous from the checkpoint + 1
ChunksContiguous ==
    \A i \in 1..Len(ChunksOfRun) :
       ChunksOfRun[i].from =
          (IF i = 1 THEN last_block + 1 ELSE ChunksOfRun[i - 1].to + 1)

\* once the loop is left the chunks reach the head snapshot (no chunk when
\* the range [checkpoint + 1, head] is empty)
ChunksCoverRange ==
    LoopLeft =>
       IF last_block + 1 > current_block
       THEN ChunksOfRun = <<>>
       ELSE ChunksOfRun # <<>> /\ Last(ChunksOfRun).to = current_block

AllChunksSucceeded == \A i \in 1..Len(ChunksOfRun) : ChunksOfRun[i].ok

\* C21 as stated: the head is read once and bounds the whole scan: every
\* chunk [f,t] has checkpoint + 1 <= f <= t <= head snapshot, the chunks are
\* ascending, contiguous and cover exactly [checkpoint + 1, head snapshot],
\* and when every chunk succeeds the checkpoint persisted at the end of the
\* scan equals the head snapshot.
C21_HeadSnapshotBoundsScan ==
    /\ CheckpointLoaded =>
          (ChunksWithinSnapshot /\ ChunksContiguous /\ ChunksCoverRange)
    /\ (LoopLeft /\ AllChunksSucceeded)
          => ReadLastBlock(ckpt_file) = current_block

\* C21 amended: as above, but the persisted checkpoint equals the head
\* snapshot only when the scan requested at least one chunk; a scan whose
\* checkpoint is at or above the head snapshot requests no chunk and leaves
\* the checkpoint as it was loaded.
C21_HeadSnapshotBoundsNonEmptyScan ==
    /\ CheckpointLoaded =>
          (ChunksWithinSnapshot /\ ChunksContiguous /\ ChunksCoverRange)
    /\ (LoopLeft /\ AllChunksSucceeded) =>
          IF ChunksOfRun # <<>>
          THEN ReadLastBlock(ckpt_file) = current_block
          ELSE ReadLastBlock(ckpt_file) = last_block /\ last_block >= current_block

\* a scan of three successful chunks has ended with the checkpoint at the head
C21_Witness ==
    /\ LoopLeft /\ AllChunksSucceeded
    /\ Len(ChunksOfRun) = 3
    /\ ckpt_file = Checkpoint(current_block)

\* a scan has ended without a chunk and the checkpoint is above the head
C21_EmptyScanAboveHead ==
    /\ LoopLeft /\ ChunksOfRun = <<>>
    /\ ReadLastBlock(ckpt_file) > current_block

\* the run is inside the while loop of the scan
InLoop == pc \in {"loop", "save_stakers_chunk"}

\* no block range of the run is requested twice: each chunk starts above the
\* end of the chunk before it
ChunksRequestedOnce ==
    \A i, j \in 1..Len(ChunksOfRun) :
       i < j => ChunksOfRun[i].to < ChunksOfRun[j].from

\* C22: every scan terminates, whatever the checkpoint, the head snapshot and
\* the pattern of chunk successes and failures: a run that entered the loop
\* leaves it, with from_block above the head snapshot; from_block never
\* decreases and each iteration (a new chunk request) starts above the chunk
\* requested before, so that no chunk is requested twice, failed or not.
C22_ScanTerminates ==
    /\ InLoop ~> LoopLeft
    /\ [](LoopLeft => from_block > current_block)
    /\ [](CheckpointLoaded => ChunksRequestedOnce)
    /\ [][InLoop =>
            /\ from_block' >= from_block
            /\ (Len(chunks') > Len(chunks)) =>
                  /\ Last(chunks').from = from_block
                  /\ (unit # "staking" \/ ~Last(chunks').ok)
                        => from_block' > from_block
            /\ (pc = "save_stakers_chunk") => from_block' > from_block]_vars

\* a scan of three chunks, the second one failed, has left the loop
C22_Witness ==
    /\ LoopLeft
    /\ Len(ChunksOfRun) = 3
    /\ ~ChunksOfRun[2].ok
    /\ from_block = current_block + 1

---------------------------------------------------------------------------
(* Upstream faults *)

\* the step is an iteration of the loop whose chunk failed
ChunkFailedStep == Len(chunks') = Len(chunks) + 1 /\ ~Last(chunks').ok

\* a failed log fetch or block lookup is counted once under the unit's
\* get-events label and the loop goes on after the chunk
ChunkFaultTallied ==
    ChunkFailedStep =>
       /\ errors' = Inc(GetEventsError(unit))
       /\ pc' = "loop"
       /\ from_block' = Last(chunks').to + 1

\* the step leaves the head read without a head: the call raised
HeadReadFailedStep == pc = "read_head" /\ pc' \notin {"read_head", "load_ckpt"}

\* C23: every transient upstream fault on an RPC call of a unit (the chain
\* head read at scan start, a log fetch, a block-timestamp lookup) adds to the
\* error tally and the scan goes on to its terminal condition instead of
\* ending the unit.
C23_RpcFaultsTallied ==
    [][/\ ChunkFaultTallied
       /\ HeadReadFailedStep =>
             (pc' # "raised" /\ \E t \in ErrorTypes : errors'[t] = errors[t] + 1)]_vars

\* the faults inside the loop (log fetch, block lookup) are tallied and the
\* scan goes on
C23_ChunkFaultsTallied == [][ChunkFaultTallied]_vars

---------------------------------------------------------------------------
(* The staker snapshot *)

RECURSIVE EventsOf(_)
\* the events of the chunks cs that succeeded, in the order of the chunks
EventsOf(cs) ==
    IF cs = <<>> THEN <<>>
    ELSE (IF Head(cs).ok THEN GetLogs(Head(cs).from, Head(cs).to) ELSE <<>>)
            \o EventsOf(Tail(cs))

\* the index of the latest event of owner o in evs
LatestOf(evs, o) ==
    CHOOSE i \in 1..Len(evs) :
       /\ evs[i].owner = o
       /\ \A j \in (i + 1)..Len(evs) : evs[j].owner # o

RECURSIVE TotalOver(_, _)
\* the sum of the stakes that d holds for the owners of S
TotalOver(d, S) ==
    IF S = {} THEN 0
    ELSE LET o == CHOOSE x \in S : TRUE
         IN  Get(d, o) + TotalOver(d, S \ {o})

\* d holds, for every owner updated by evs, the stake of the owner's latest
\* event, for every other owner of `loaded` the loaded stake, and nobody else
LastValueWins(d, loaded, evs) ==
    LET updated == {evs[i].owner : i \in 1..Len(evs)}
    IN  /\ Len(d) = Cardinality(Keys(d))
        /\ Keys(d) = Keys(loaded) \cup updated
        /\ \A o \in Keys(d) :
              Get(d, o) = (IF o \in updated THEN evs[LatestOf(evs, o)].stake
                          ELSE Get(loaded, o))

StakingScan == unit = "staking" /\ CheckpointLoaded /\ pc \in {"loop", "save_stakers_chunk", "save_stakers", "done"}

---------------------------------------------------------------------------
(* Blocks passed over *)

\* block b was inside a chunk requested by some run, successfully or not
Requested(b) ==
    \E i \in 1..Len(chunks) : chunks[i].from <= b /\ b <= chunks[i].to

\* the blocks at which a range of never requested blocks can start or end:
\* the block after the end of a chunk, and the persisted checkpoint itself
\* (the requested ranges are intervals, so a gap below the checkpoint holds
\* one of these blocks)
GapCandidates ==
    {chunks[i].to + 1 : i \in 1..Len(chunks)} \cup {ReadLastBlock(ckpt_file)}

\* C25: across runs, successes, failures and restarts no block is passed over
\* without ever being requested: every block from the first one requested up
\* to the persisted checkpoint, from which the next scan resumes at
\* checkpoint + 1, was inside some requested chunk.
C25_NoBlockPassedOver ==
    chunks # <<>> =>
       \A b \in GapCandidates :
          (chunks[1].from <= b /\ b <= ReadLastBlock(ckpt_file)) => Requested(b)

---------------------------------------------------------------------------
(* Failed chunks and the accumulated data *)

\* C26: a failed chunk leaves the accumulated data unchanged: when the
\* processing of a chunk raises part-way the in-memory record sequence
\* (winner unit) and the staker snapshot (staking unit) are the same as
\* before the chunk started.
C26_FailedChunkLeavesData ==
    [][ChunkFailedStep => (winners' = winners /\ stakers' = stakers)]_vars

\* the staker snapshot is the same after a failed chunk as before it
C26_FailedChunkLeavesStakers ==
    [][ChunkFailedStep => stakers' = stakers]_vars

====
